---- MODULE Spec2Model ----
(***************************************************************************)
(* A model of task2/app.py, the Streamlit "AI Feedback System": the CSV    *)
(* store (load_data, save_submission, delete_all_submissions), the LLM     *)
(* helper call_llm_text with its primary/secondary endpoints, the User     *)
(* Dashboard submit handler and the Admin Dashboard (filter, delete-all).  *)
(*                                                                         *)
(* Text is a sequence of one-character strings, so that strip, slicing,    *)
(* case folding, substring search and the CSV conversions are computed     *)
(* and not assumed.                                                        *)
(***************************************************************************)
EXTENDS Integers, Sequences, FiniteSets, TLC

(***************************************************************************)
(* Bounds of the model.                                                    *)
(***************************************************************************)
\* Number of accepted submissions in one behaviour (each takes one clock tick).
MaxClock == 2
\* Number of rows of the tables the filter and the store interface start from.
MaxRows == 2

(***************************************************************************)
(* State.                                                                  *)
(***************************************************************************)
VARIABLES
    env,      \* which of OPENAI_API_KEY, OPENROUTER_API_KEY are set
    network,  \* the answers the endpoints can give in this behaviour
    file,     \* data/submissions.csv
    clock,    \* instants of datetime.utcnow() used so far
    page,     \* the sidebar selectbox
    q,        \* the admin search box
    ack,      \* the admin confirmation checkbox
    shown,    \* the admin widgets the last run drew
    ui,       \* the messages the last run showed
    inp,      \* the review and rating of the last Submit run, if any
    calls,    \* the call_llm_text calls of the last run
    built,    \* the row the last run handed to save_submission, if any
    saved,    \* save_submission returned in the last run
    store,    \* the store interface called directly: its last calls and results
    view,     \* the last filter of the admin table: its inputs and its result
    race      \* two processes inside save_submission at once

vars == <<env, network, file, clock, page, q, ack, shown, ui, inp, calls,
          built, saved, store, view, race>>

(***************************************************************************)
(* Text helpers (Python str).                                              *)
(***************************************************************************)
\* Whitespace as str.strip() and the CSV tokenizer see it.
Whitespace == {" ", "\n", "\t", "\r"}

RECURSIVE lstrip(_)
lstrip(s) ==
    IF s # <<>> /\ Head(s) \in Whitespace THEN lstrip(Tail(s)) ELSE s

RECURSIVE rstrip(_)
rstrip(s) ==
    IF s # <<>> /\ s[Len(s)] \in Whitespace
    THEN rstrip(SubSeq(s, 1, Len(s) - 1))
    ELSE s

\* str.strip()
strip(s) == lstrip(rstrip(s))

\* s[:n]
slice_to(s, n) == SubSeq(s, 1, IF Len(s) < n THEN Len(s) ELSE n)

Upper == <<"A","B","C","D","E","F","G","H","I","J","K","L","M",
           "N","O","P","Q","R","S","T","U","V","W","X","Y","Z">>
Lower == <<"a","b","c","d","e","f","g","h","i","j","k","l","m",
           "n","o","p","q","r","s","t","u","v","w","x","y","z">>

\* Case folding of one character, as re.IGNORECASE compares ASCII letters.
fold(c) ==
    IF \E i \in 1..26 : Upper[i] = c
    THEN Lower[CHOOSE i \in 1..26 : Upper[i] = c]
    ELSE c

casefold(s) == [i \in 1..Len(s) |-> fold(s[i])]

\* needle occurs in hay as a contiguous run of characters.
occurs_in(needle, hay) ==
    \E i \in 1..(Len(hay) - Len(needle) + 1) :
        SubSeq(hay, i, i + Len(needle) - 1) = needle

Digits == <<"0","1","2","3","4","5","6","7","8","9">>

is_digit(c) == \E i \in 1..10 : Digits[i] = c

digit_val(c) == (CHOOSE i \in 1..10 : Digits[i] = c) - 1

all_digits(s) == \A i \in 1..Len(s) : is_digit(s[i])

RECURSIVE text_to_int(_)
text_to_int(s) ==
    IF s = <<>> THEN 0
    ELSE 10 * text_to_int(SubSeq(s, 1, Len(s) - 1)) + digit_val(s[Len(s)])

RECURSIVE int_to_text(_)
int_to_text(n) ==
    IF n < 10 THEN <<Digits[n + 1]>>
    ELSE int_to_text(n \div 10) \o <<Digits[(n % 10) + 1]>>

(***************************************************************************)
(* The CSV conversions of pandas, with the defaults the code calls them    *)
(* with: df.to_csv(DATA_PATH, index=False) and pd.read_csv(DATA_PATH).     *)
(* Quoting is lossless (fields with commas, quotes or line breaks are      *)
(* quoted and unquoted again), so a file is its sequence of rows of text   *)
(* cells.  What is not lossless is the typing of the cells on the way back *)
(* in: missing-value markers and numbers.                                  *)
(***************************************************************************)
\* A DataFrame cell: missing, an int64, a float64 or a Python str.
NaN == [k |-> "nan", n |-> 0, s |-> <<>>]
IntV(n) == [k |-> "int", n |-> n, s |-> <<>>]
\* A float64 with integer part n and fraction digits f.
FloatV(n, f) == [k |-> "float", n |-> n, s |-> f]
StrV(t) == [k |-> "str", n |-> 0, s |-> t]

\* The cells read_csv reads as missing (keep_default_na=True).
NaValues ==
    { <<>>,
      <<"#","N","/","A">>,
      <<"#","N","/","A"," ","N","/","A">>,
      <<"#","N","A">>,
      <<"-","1",".","#","I","N","D">>,
      <<"-","1",".","#","Q","N","A","N">>,
      <<"-","N","a","N">>,
      <<"-","n","a","n">>,
      <<"1",".","#","I","N","D">>,
      <<"1",".","#","Q","N","A","N">>,
      <<"<","N","A",">">>,
      <<"N","/","A">>,
      <<"N","A">>,
      <<"N","U","L","L">>,
      <<"N","a","N">>,
      <<"N","o","n","e">>,
      <<"n","/","a">>,
      <<"n","a","n">>,
      <<"n","u","l","l">> }

\* Unsigned decimal integers; the tokenizer skips blanks around the digits.
is_int_text(t) == strip(t) # <<>> /\ all_digits(strip(t))

\* Unsigned decimals with a point: digits "." digits.
is_float_text(t) ==
    LET u == strip(t) IN
    \E p \in 1..Len(u) :
        /\ u[p] = "."
        /\ Len(u) > 1
        /\ all_digits(SubSeq(u, 1, p - 1))
        /\ all_digits(SubSeq(u, p + 1, Len(u)))

float_of_text(t) ==
    LET u == strip(t) IN
    IF is_int_text(t) THEN FloatV(text_to_int(u), <<"0">>)
    ELSE LET p == CHOOSE j \in 1..Len(u) : u[j] = "."
             f == SubSeq(u, p + 1, Len(u))
         IN  FloatV(text_to_int(SubSeq(u, 1, p - 1)),
                    IF f = <<>> THEN <<"0">> ELSE f)

\* The dtype read_csv infers for a column of cells.
column_dtype(cells) ==
    LET present == {i \in 1..Len(cells) : cells[i] \notin NaValues} IN
    IF present = {} THEN "float64"
    ELSE IF \A i \in present : is_int_text(cells[i])
         THEN (IF Cardinality(present) = Len(cells) THEN "int64" ELSE "float64")
    ELSE IF \A i \in present : is_int_text(cells[i]) \/ is_float_text(cells[i])
         THEN "float64"
    ELSE "object"

\* The values read_csv gives a column of cells.
parse_column(cells) ==
    LET dt == column_dtype(cells) IN
    [i \in 1..Len(cells) |->
        IF cells[i] \in NaValues THEN NaN
        ELSE IF dt = "int64" THEN IntV(text_to_int(strip(cells[i])))
        ELSE IF dt = "float64" THEN float_of_text(cells[i])
        ELSE StrV(cells[i])]

\* The text to_csv writes for a cell (na_rep is the empty string).
format_cell(v) ==
    IF v.k = "nan" THEN <<>>
    ELSE IF v.k = "int" THEN int_to_text(v.n)
    ELSE IF v.k = "float" THEN int_to_text(v.n) \o <<".">> \o v.s
    ELSE v.s

Columns == {"timestamp", "rating", "review", "ai_response", "summary", "actions"}

\* df.to_csv(DATA_PATH, index=False): the rows of text cells written.
to_csv(df) == [i \in 1..Len(df) |-> [c \in Columns |-> format_cell(df[i][c])]]

\* pd.read_csv(DATA_PATH): the DataFrame read from rows of text cells.
read_csv(rows) ==
    [i \in 1..Len(rows) |->
        [c \in Columns |->
            parse_column([j \in 1..Len(rows) |-> rows[j][c]])[i]]]

\* The dtype of column c of the DataFrame read from rows.
dtype_of(rows, c) == column_dtype([j \in 1..Len(rows) |-> rows[j][c]])

(***************************************************************************)
(* The store: data/submissions.csv.                                        *)
(***************************************************************************)
NoFile == [exists |-> FALSE, rows |-> <<>>]
FileOf(rows) == [exists |-> TRUE, rows |-> rows]

\* Lines 18-22: the frame read from the file, or the empty frame.
load_data(f) == IF f.exists THEN read_csv(f.rows) ELSE <<>>

\* Faulty variant: it puts the new row before the frame it loaded.
concat_and_write_prepend(df, row) == FileOf(to_csv(<<row>> \o df))

\* Lines 26-27: pd.concat([df, pd.DataFrame([row])]) and df.to_csv, the
\* rewrite of the whole file from the frame df that line 25 loaded.
concat_and_write(df, row) == FileOf(to_csv(df \o <<row>>))

\* Lines 24-27: load, concatenate, rewrite.
save_submission(f, row) == concat_and_write(load_data(f), row)

\* os.remove(DATA_PATH): raises FileNotFoundError when there is no file.
os_remove(f) ==
    IF f.exists THEN [raised |-> FALSE, file |-> NoFile]
    ELSE [raised |-> TRUE, file |-> f]

\* Faulty variant: it removes without asking whether the file exists.
delete_all_submissions_unguarded(f) == os_remove(f)

\* Lines 29-31: os.remove behind os.path.exists.
delete_all_submissions(f) ==
    IF f.exists THEN os_remove(f) ELSE [raised |-> FALSE, file |-> f]

(***************************************************************************)
(* The LLM helper.                                                         *)
(***************************************************************************)
\* timeout=15 of call_llm_text, in seconds.
Timeout == 15

OpenAiUrl == "https://api.openai.com/v1/chat/completions"
OpenRouterUrl == "https://openrouter.ai/v1/chat/completions"

\* What one endpoint does with one request.  "timeout" and
\* "connection_error" make requests.post raise, "http_error" makes
\* raise_for_status raise, "bad_json" makes r.json() raise, "no_content"
\* is JSON without a choices[0].message.content string, and "ok" is a 2xx
\* answer whose content is the given text.
Failure(kind) == [kind |-> kind, content |-> <<>>]
Ok(text) == [kind |-> "ok", content |-> text]
\* The placeholder for an endpoint that is sent no request.
NotRequested == Failure("not_requested")

FailureKinds ==
    {"timeout", "connection_error", "http_error", "bad_json", "no_content"}

\* The result of call_llm_text: None, or the text.
None == [ok |-> FALSE, text |-> <<>>]
Some(text) == [ok |-> TRUE, text |-> text]

\* os.getenv("OPENAI_API_KEY") or os.getenv("OPENROUTER_API_KEY")
api_key(keys) ==
    IF keys.openai THEN "OPENAI_API_KEY"
    ELSE IF keys.openrouter THEN "OPENROUTER_API_KEY"
    ELSE "none"

\* The request requests.post sends to url.
request(url, keys, prompt) ==
    [url |-> url, bearer |-> api_key(keys), model |-> "gpt-3.5-turbo",
     temperature |-> 0, timeout |-> Timeout, content |-> prompt]

\* The try block around one endpoint's answer: the text, or an exception.
completion(resp) ==
    IF resp.kind = "ok" THEN Some(strip(resp.content)) ELSE None

\* Faulty variant: it asks OpenRouter after a failure whether or not
\* OPENROUTER_API_KEY is set.
tries_openrouter_always(keys, first) == ~completion(first).ok

\* The except branch asks OpenRouter: the first attempt raised and
\* OPENROUTER_API_KEY is set.
tries_openrouter(keys, first) == ~completion(first).ok /\ keys.openrouter

\* call_llm_text(prompt), where net gives the answer of each endpoint:
\* the requests sent, in order, and the value returned.
call_llm_text(keys, prompt, net) ==
    IF api_key(keys) = "none"
    THEN [requests |-> <<>>, result |-> None]
    ELSE IF completion(net.openai).ok
    THEN [requests |-> <<request(OpenAiUrl, keys, prompt)>>,
          result |-> completion(net.openai)]
    ELSE IF tries_openrouter(keys, net.openai)
    THEN [requests |-> <<request(OpenAiUrl, keys, prompt),
                         request(OpenRouterUrl, keys, prompt)>>,
          result |-> completion(net.openrouter)]
    ELSE [requests |-> <<request(OpenAiUrl, keys, prompt)>>, result |-> None]

(***************************************************************************)
(* Fallback producers and prompt builders.                                 *)
(***************************************************************************)
\* The length fallback_summary cuts the review to.
SummaryLimit == 160

fallback_user_response(rating, review) ==
    <<"T","h","a","n","k","s"," ","f","o","r"," ","y","o","u","r"," ","r","e",
      "v","i","e","w","!"," ","W","e"," ","a","p","p","r","e","c","i","a","t",
      "e"," ","y","o","u","r"," ","f","e","e","d","b","a","c","k",".">>

fallback_summary(review) ==
    slice_to(review, SummaryLimit)
        \o (IF Len(review) > SummaryLimit THEN <<".", ".", ".">> ELSE <<>>)

fallback_actions(review, rating) ==
    <<"-"," ","T","h","a","n","k"," ","t","h","e"," ","c","u","s","t","o","m",
      "e","r","\n","-"," ","I","n","v","e","s","t","i","g","a","t","e"," ",
      "t","h","e"," ","i","s","s","u","e","\n","-"," ","I","m","p","r","o",
      "v","e"," ","s","e","r","v","i","c","e"," ","b","a","s","e","d"," ","o",
      "n"," ","f","e","e","d","b","a","c","k">>

\* A prompt is its template and the values formatted into it.
user_reply_prompt(rating, review) ==
    [template |-> "user_reply", rating |-> rating, review |-> review]

summary_prompt(review) ==
    [template |-> "summary", rating |-> 0, review |-> review]

actions_prompt(review, rating) ==
    [template |-> "actions", rating |-> rating, review |-> review]

\* datetime.utcnow().isoformat() at instant n: a text that is no number.
isoformat(n) == <<"T">> \o int_to_text(n)

(***************************************************************************)
(* The User Dashboard: the body of `if st.button("Submit")`.               *)
(***************************************************************************)
\* Faulty variant: it takes the review as typed, so only "" is empty.
review_is_empty_unstripped(review) == review = <<>>

\* review.strip() == ""
review_is_empty(review) == strip(review) = <<>>

\* The three calls, in the order the handler makes them; nets[i] gives the
\* endpoints' answers during call i.
enrich(keys, rating, review, nets) ==
    << call_llm_text(keys, user_reply_prompt(rating, review), nets[1]),
       call_llm_text(keys, summary_prompt(review), nets[2]),
       call_llm_text(keys, actions_prompt(review, rating), nets[3]) >>

\* Faulty variant: it keeps what the call returned, None included (as empty text).
or_fallback_never(result, fallback) == result.text

\* `if x is None: x = fallback`
or_fallback(result, fallback) == IF result.ok THEN result.text ELSE fallback

\* The row dict the handler assembles at instant ts.
build_row(ts, rating, review, cs) ==
    [timestamp   |-> StrV(isoformat(ts)),
     rating      |-> IntV(rating),
     review      |-> StrV(review),
     ai_response |-> StrV(or_fallback(cs[1].result,
                                      fallback_user_response(rating, review))),
     summary     |-> StrV(or_fallback(cs[2].result, fallback_summary(review))),
     actions     |-> StrV(or_fallback(cs[3].result,
                                      fallback_actions(review, rating)))]

\* Faulty variant: it shows success whether or not save_submission returned.
submit_messages_always_success(returned) == <<"info", "success">>

\* What Streamlit shows for a run of the handler in which save_submission
\* returned or raised: st.success is the statement after the call, and an
\* exception that leaves the script is shown in its place.
submit_messages(returned) ==
    IF returned THEN <<"info", "success">> ELSE <<"info", "exception">>

(***************************************************************************)
(* The Admin Dashboard.                                                    *)
(***************************************************************************)
RatingOptions == {1, 2, 3, 4, 5}

\* df["rating"].isin(selected_ratings) for one cell.
rating_isin(v, selected) == v.k \in {"int", "float"} /\ v.n \in selected

\* Lines 162-164.  str.contains(q, case=False, na=False) is a regular
\* expression search; the search strings of this model hold letters, digits
\* and blanks only, which match themselves.  The .str accessor raises
\* AttributeError on a column that is not of dtype object.
admin_filter(f, selected, text) ==
    LET df == load_data(f)
        by_rating == SelectSeq(df, LAMBDA r : rating_isin(r.rating, selected))
    IN  IF strip(text) = <<>>
        THEN [raised |-> FALSE, rows |-> by_rating]
        ELSE IF dtype_of(f.rows, "review") # "object"
        THEN [raised |-> TRUE, rows |-> <<>>]
        ELSE [raised |-> FALSE,
              rows |-> SelectSeq(by_rating,
                          LAMBDA r : /\ r.review.k = "str"
                                     /\ occurs_in(casefold(text),
                                                  casefold(r.review.s)))]

\* Faulty variant: it draws the Delete all button beside the checkbox, not under it.
delete_button_drawn_always(ticked) == TRUE

\* Lines 174-175: `if st.checkbox(...)` draws the Delete all button only
\* while the checkbox is ticked.
delete_button_drawn(ticked) == ticked

\* One run of the Admin Dashboard script with the widget values q (search
\* box), ack (checkbox) and click (the Delete all button was pressed): the
\* messages shown, the widgets drawn, the file afterwards and the widget
\* values the session keeps (a widget that is not drawn loses its value).
admin_run(f, text, ticked, click) ==
    IF load_data(f) = <<>>
    THEN [ui |-> <<"no_submissions">>, shown |-> {}, file |-> f,
          q |-> <<>>, ack |-> FALSE]
    ELSE IF admin_filter(f, RatingOptions, text).raised
    THEN [ui |-> <<"analytics", "exception">>, shown |-> {"search"},
          file |-> f, q |-> text, ack |-> FALSE]
    ELSE IF delete_button_drawn(ticked) /\ click
    THEN [ui |-> <<"analytics", "table", "deleted">>,
          shown |-> {"search", "confirm", "delete"},
          file |-> delete_all_submissions(f).file, q |-> text,
          ack |-> ticked]
    ELSE [ui |-> <<"analytics", "table">>,
          shown |-> {"search", "confirm"}
                      \cup (IF delete_button_drawn(ticked)
                            THEN {"delete"} ELSE {}),
          file |-> f, q |-> text, ack |-> ticked]

(***************************************************************************)
(* Inputs of the model.                                                    *)
(***************************************************************************)
\* Reviews typed into the text area: empty, blank, plain text, a marker
\* read_csv takes for a missing value, and a number.
ReviewInputs == { <<>>, <<" ">>, <<"a">>, <<"N","A">>, <<"7">> }

\* Ratings chosen in the selectbox.
RatingInputs == {1, 5}

\* Contents an endpoint answers with: blank, and text with a trailing blank.
ContentInputs == { <<" ">>, <<"a", " ">> }

\* Search strings typed into the admin search box.
SearchInputs == { <<>>, <<" ">>, <<"A">> }

\* Endpoints that answer every request with text.
ReliableResponses == {Ok(<<"a", " ">>)}

\* Endpoints with one way of failing: the sets InitEnrich chooses from.
FailingNetworks ==
    { {Failure(k)} \cup {Ok(c) : c \in ContentInputs} : k \in FailureKinds }

Environments == [openai : BOOLEAN, openrouter : BOOLEAN]

\* The answers the endpoints can give during one call_llm_text under env:
\* an endpoint that is sent no request gives none.
Nets(keys, responses) ==
    IF api_key(keys) = "none"
    THEN {[openai |-> NotRequested, openrouter |-> NotRequested]}
    ELSE UNION { {[openai |-> p1, openrouter |-> p2] :
                    p2 \in (IF tries_openrouter(keys, p1)
                            THEN responses ELSE {NotRequested})} :
                 p1 \in responses }

\* The variables the dashboard runs leave alone.
aux == <<store, view, race>>

UserPage == "User Dashboard"
AdminPage == "Admin Dashboard"

\* A run that is not a submission leaves no submission outputs.
NoSubmission == /\ inp' = <<>>
                /\ calls' = <<>>
                /\ built' = <<>>
                /\ saved' = FALSE

NoStore == [hist |-> <<>>, raised |-> FALSE, loaded |-> <<>>]
NoView == <<>>
NoRace == <<>>

InitAux ==
    /\ store = NoStore
    /\ view = NoView
    /\ race = NoRace

InitApp ==
    /\ InitAux
    /\ env \in Environments
    /\ file = NoFile
    /\ page = UserPage
    /\ q = <<>>
    /\ ack = FALSE
    /\ shown = {}
    /\ ui = <<>>
    /\ inp = <<>>
    /\ calls = <<>>
    /\ built = <<>>
    /\ saved = FALSE

Init ==
    /\ InitApp
    /\ network = ReliableResponses
    /\ clock = 0

\* One accepted submission, under each kind of endpoint failure.
InitEnrich ==
    /\ InitApp
    /\ network \in FailingNetworks
    /\ clock = MaxClock - 1

(***************************************************************************)
(* Actions: one per run of the script.                                     *)
(***************************************************************************)
\* The Submit button is pressed with an empty review: lines 101-102.
SubmitEmpty ==
    /\ page = UserPage
    /\ \E rating \in RatingInputs, review \in ReviewInputs :
        /\ review_is_empty(review)
        /\ inp' = <<[review |-> review, rating |-> rating]>>
        /\ ui' = <<"error">>
        /\ calls' = <<>>
        /\ built' = <<>>
        /\ saved' = FALSE
    /\ UNCHANGED <<env, network, file, clock, page, q, ack, shown, aux>>

\* The Submit button is pressed with a review: lines 103-135.  disk_ok says
\* whether save_submission returns or raises (a read or write error) before
\* it has changed the file.
Submit ==
    /\ page = UserPage
    /\ clock < MaxClock
    /\ \E rating \in RatingInputs, review \in ReviewInputs :
        /\ ~review_is_empty(review)
        /\ \E n1 \in Nets(env, network), n2 \in Nets(env, network),
              n3 \in Nets(env, network), disk_ok \in BOOLEAN :
            LET cs == enrich(env, rating, review, <<n1, n2, n3>>)
                row == build_row(clock + 1, rating, review, cs)
            IN  /\ inp' = <<[review |-> review, rating |-> rating]>>
                /\ calls' = [i \in 1..3 |->
                                [net |-> <<n1, n2, n3>>[i],
                                 requests |-> cs[i].requests,
                                 result |-> cs[i].result]]
                /\ built' = <<row>>
                /\ saved' = disk_ok
                /\ file' = IF disk_ok THEN save_submission(file, row) ELSE file
                /\ ui' = submit_messages(disk_ok)
    /\ clock' = clock + 1
    /\ UNCHANGED <<env, network, page, q, ack, shown, aux>>

\* The other dashboard is selected in the sidebar: the widgets of the page
\* left are not drawn again and the page entered starts from its defaults.
SelectDashboard ==
    /\ page' = IF page = UserPage THEN AdminPage ELSE UserPage
    /\ IF page' = AdminPage
       THEN LET r == admin_run(file, <<>>, FALSE, FALSE)
            IN  /\ ui' = r.ui
                /\ shown' = r.shown
                /\ q' = r.q
                /\ ack' = r.ack
       ELSE /\ ui' = <<>>
            /\ shown' = {}
            /\ q' = <<>>
            /\ ack' = FALSE
    /\ NoSubmission
    /\ UNCHANGED <<env, network, file, clock, aux>>

\* The search box is edited.
SearchReviews ==
    /\ page = AdminPage
    /\ "search" \in shown
    /\ \E text \in SearchInputs \ {q} :
        LET r == admin_run(file, text, ack, FALSE)
        IN  /\ ui' = r.ui
            /\ shown' = r.shown
            /\ q' = r.q
            /\ ack' = r.ack
    /\ NoSubmission
    /\ UNCHANGED <<env, network, file, clock, page, aux>>

\* The confirmation checkbox is ticked or cleared.
ToggleConfirm ==
    /\ page = AdminPage
    /\ "confirm" \in shown
    /\ LET r == admin_run(file, q, ~ack, FALSE)
       IN  /\ ui' = r.ui
           /\ shown' = r.shown
           /\ q' = r.q
           /\ ack' = r.ack
    /\ NoSubmission
    /\ UNCHANGED <<env, network, file, clock, page, aux>>

\* The Delete all button is pressed.
ClickDeleteAll ==
    /\ page = AdminPage
    /\ "delete" \in shown
    /\ LET r == admin_run(file, q, ack, TRUE)
       IN  /\ ui' = r.ui
           /\ shown' = r.shown
           /\ q' = r.q
           /\ ack' = r.ack
           /\ file' = r.file
    /\ NoSubmission
    /\ UNCHANGED <<env, network, clock, page, aux>>

\* The Admin Dashboard is run again with its widgets as they are.
RerunAdmin ==
    /\ page = AdminPage
    /\ LET r == admin_run(file, q, ack, FALSE)
       IN  /\ ui' = r.ui
           /\ shown' = r.shown
           /\ q' = r.q
           /\ ack' = r.ack
    /\ NoSubmission
    /\ UNCHANGED <<env, network, file, clock, page, aux>>

Next ==
    \/ SubmitEmpty
    \/ Submit
    \/ SelectDashboard
    \/ SearchReviews
    \/ ToggleConfirm
    \/ ClickDeleteAll
    \/ RerunAdmin

Spec == Init /\ [][Next]_vars

SpecEnrich == InitEnrich /\ [][Next]_vars

(***************************************************************************)
(* The store interface called directly: load_data, save_submission and     *)
(* delete_all_submissions in any order, from the state with no file.       *)
(***************************************************************************)
NoKeys == [openai |-> FALSE, openrouter |-> FALSE]
Silent == [openai |-> NotRequested, openrouter |-> NotRequested]

\* The row a submission at instant ts gives when no API key is set.
plain_row(ts, rating, review) ==
    build_row(ts, rating, review,
              enrich(NoKeys, rating, review, <<Silent, Silent, Silent>>))

ValidReviews == {r \in ReviewInputs : ~review_is_empty(r)}

\* The files that submissions of the given reviews and ratings leave,
\* one after the other, from no file.
RECURSIVE written(_)
written(subs) ==
    IF subs = <<>> THEN NoFile
    ELSE save_submission(written(SubSeq(subs, 1, Len(subs) - 1)),
                         plain_row(Len(subs), subs[Len(subs)].rating,
                                   subs[Len(subs)].review))

Submissions == [review : ValidReviews, rating : RatingInputs]

SubmissionRuns(n) == UNION {[1..k -> Submissions] : k \in 0..n}

\* The app's variables while the dashboards are not in use.
InitIdle ==
    /\ env = NoKeys
    /\ network = {}
    /\ clock = 0
    /\ page = UserPage
    /\ q = <<>>
    /\ ack = FALSE
    /\ shown = {}
    /\ ui = <<>>
    /\ inp = <<>>
    /\ calls = <<>>
    /\ built = <<>>
    /\ saved = FALSE

idle == <<env, network, clock, page, q, ack, shown, ui, inp, calls, built,
          saved>>

\* The last three calls of the store interface.
remember(hist, op) ==
    IF Len(hist) < 3 THEN Append(hist, op) ELSE Append(Tail(hist), op)

InitStore ==
    /\ InitIdle
    /\ InitAux
    /\ file = NoFile

StoreAppend ==
    /\ Len(file.rows) < MaxRows
    /\ \E sub \in Submissions :
        file' = save_submission(file, plain_row(Len(file.rows) + 1,
                                                sub.rating, sub.review))
    /\ store' = [hist |-> remember(store.hist, "append"), raised |-> FALSE,
                 loaded |-> store.loaded]
    /\ UNCHANGED <<idle, view, race>>

StoreDeleteAll ==
    /\ file' = delete_all_submissions(file).file
    /\ store' = [hist |-> remember(store.hist, "deleteAll"),
                 raised |-> delete_all_submissions(file).raised,
                 loaded |-> store.loaded]
    /\ UNCHANGED <<idle, view, race>>

StoreLoad ==
    /\ store' = [hist |-> remember(store.hist, "load"), raised |-> FALSE,
                 loaded |-> load_data(file)]
    /\ UNCHANGED <<file, idle, view, race>>

NextStore == StoreAppend \/ StoreDeleteAll \/ StoreLoad

SpecStore == InitStore /\ [][NextStore]_vars

(***************************************************************************)
(* The admin filter as a function of the table, the selected ratings and   *)
(* the search string.                                                      *)
(***************************************************************************)
\* Selections of the rating multiselect.
SelectionInputs == { {}, {5}, {4, 5}, RatingOptions }

InitFilter ==
    /\ InitIdle
    /\ InitAux
    /\ file \in {written(subs) : subs \in SubmissionRuns(MaxRows)} \ {NoFile}

ApplyFilter ==
    /\ \E selected \in SelectionInputs, text \in SearchInputs :
        view' = <<[selected |-> selected, q |-> text,
                   out |-> admin_filter(file, selected, text)]>>
    /\ UNCHANGED <<file, idle, store, race>>

NextFilter == ApplyFilter

SpecFilter == InitFilter /\ [][NextFilter]_vars

(***************************************************************************)
(* Two processes in save_submission at once: each loads (line 25) and      *)
(* then rewrites the file from what it loaded (lines 26-27).               *)
(***************************************************************************)
Writers == {1, 2}

other(w) == 3 - w

\* The timestamps of the two processes' rows differ from each other and from
\* those of the rows already in the file.
InitRace ==
    /\ InitIdle
    /\ store = NoStore
    /\ view = NoView
    /\ file \in {written(subs) : subs \in SubmissionRuns(MaxRows - 1)}
    /\ \E subs \in [Writers -> Submissions] :
        race = <<[w \in Writers |->
                    [pc |-> "enriched", df |-> <<>>,
                     row |-> plain_row(MaxRows + w, subs[w].rating,
                                       subs[w].review)]],
                 [overlapped |-> FALSE, last |-> 0]>>

RaceLoad(w) ==
    /\ race[1][w].pc = "enriched"
    /\ race' = <<[race[1] EXCEPT ![w].pc = "loaded",
                                 ![w].df = load_data(file)],
                 [race[2] EXCEPT !.overlapped =
                                     @ \/ race[1][other(w)].pc = "loaded"]>>
    /\ UNCHANGED <<file, idle, store, view>>

RaceWrite(w) ==
    /\ race[1][w].pc = "loaded"
    /\ file' = concat_and_write(race[1][w].df, race[1][w].row)
    /\ race' = <<[race[1] EXCEPT ![w].pc = "success"],
                 [race[2] EXCEPT !.last = w]>>
    /\ UNCHANGED <<idle, store, view>>

NextRace == \E w \in Writers : RaceLoad(w) \/ RaceWrite(w)

SpecRace == InitRace /\ [][NextRace]_vars

(***************************************************************************)
(* Properties.                                                             *)
(***************************************************************************)
\* Only whitespace, the empty text included.
Blank(text) == \A i \in 1..Len(text) : text[i] \in Whitespace

\* The last run showed message m.
Shows(m) == \E i \in 1..Len(ui) : ui[i] = m

\* C1: a Submit run whose review is empty after trimming whitespace shows
\* the validation error and nothing else, makes no call_llm_text call,
\* builds and saves no row, and leaves the file as it was.
C1_BlankReviewRejected ==
    [][ (inp' # <<>> /\ Blank(inp'[1].review))
            => /\ ui' = <<"error">>
               /\ calls' = <<>>
               /\ built' = <<>>
               /\ ~saved'
               /\ file' = file ]_vars

\* C1's case: a whitespace-only review was rejected while rows are stored.
C1_Witness ==
    /\ inp # <<>>
    /\ inp[1].review # <<>>
    /\ Blank(inp[1].review)
    /\ ui = <<"error">>
    /\ file.exists

\* C2: every row of the file has all six fields non-empty.
C2_AllFieldsNonEmpty ==
    \A i \in 1..Len(file.rows) : \A c \in Columns : file.rows[i][c] # <<>>

\* What the endpoints generated during a call, read off their answers: the
\* trimmed content of the first endpoint, of those a key allows, that
\* answered; None when no key is set or every request failed.
Generated(c) ==
    IF ~(env.openai \/ env.openrouter) THEN None
    ELSE IF c.net.openai.kind = "ok" THEN Some(strip(c.net.openai.content))
    ELSE IF env.openrouter /\ c.net.openrouter.kind = "ok"
    THEN Some(strip(c.net.openrouter.content))
    ELSE None

Stored(c, fallback) ==
    IF Generated(c).ok THEN StrV(Generated(c).text) ELSE StrV(fallback)

\* C3: in a run that got past validation, each of the three stored fields
\* is the generated text when its call got one and its own fallback when
\* its call failed or no key is set, whatever the other two calls did; the
\* run shows an exception only when save_submission raised, and otherwise
\* the assembled row is the last row of the file.
C3_FallbackPerOutput ==
    built # <<>> =>
        /\ built[1].ai_response =
              Stored(calls[1], fallback_user_response(inp[1].rating,
                                                      inp[1].review))
        /\ built[1].summary = Stored(calls[2], fallback_summary(inp[1].review))
        /\ built[1].actions =
              Stored(calls[3], fallback_actions(inp[1].review, inp[1].rating))
        /\ (Shows("exception") => ~saved)
        /\ (saved => /\ file.exists
                     /\ file.rows[Len(file.rows)] = to_csv(built)[1]
                     /\ ui = <<"info", "success">>)

\* C3's case: the reply call failed at both endpoints, the summary call
\* got text and the actions call failed, and the row was saved.
C3_Witness ==
    /\ built # <<>>
    /\ saved
    /\ Len(calls[1].requests) = 2
    /\ ~calls[1].result.ok
    /\ calls[2].result.ok
    /\ calls[2].result.text # <<>>
    /\ ~calls[3].result.ok
    /\ built[1].summary # StrV(fallback_summary(inp[1].review))

\* The answer the endpoint of request r gave during call c.
AnswerTo(c, r) ==
    IF r.url = OpenAiUrl THEN c.net.openai ELSE c.net.openrouter

C5_SuccessOnlyAfterSave ==
    /\ Shows("success") =>
          /\ saved
          /\ built # <<>>
          /\ file.exists
          /\ file.rows[Len(file.rows)] = to_csv(built)[1]
    /\ (built # <<>> /\ ~saved) =>
          /\ Shows("exception")
          /\ ~Shows("success")
          /\ \A i \in 1..Len(file.rows) :
                file.rows[i].timestamp # format_cell(built[1].timestamp)

\* C5's case: save_submission raised while rows are stored.
C5_Witness ==
    /\ built # <<>>
    /\ ~saved
    /\ file.exists
    /\ Shows("exception")

\* The table as load_data returns it, each cell as the text it is shown,
\* exported and rewritten as.
Table(f) == to_csv(load_data(f))

\* C6: every run leaves the table empty, as it was, or as it was with one
\* row added at the end.
C6_AppendOnly ==
    [][ \/ Table(file') = <<>>
        \/ Table(file') = Table(file)
        \/ /\ Len(Table(file')) = Len(Table(file)) + 1
           /\ SubSeq(Table(file'), 1, Len(Table(file))) = Table(file) ]_vars

\* C7: delete_all_submissions never raises and leaves no file, also when
\* there was none, and a load_data right after it returns the empty table.
C7_DeleteAllThenLoadEmpty ==
    /\ (store.hist # <<>> /\ store.hist[Len(store.hist)] = "deleteAll")
          => ~store.raised /\ ~file.exists /\ load_data(file) = <<>>
    /\ (/\ Len(store.hist) >= 2
        /\ store.hist[Len(store.hist)] = "load"
        /\ store.hist[Len(store.hist) - 1] = "deleteAll")
          => store.loaded = <<>>

\* C7's case: rows were stored, then deleteAll twice in a row, then load.
C7_Witness ==
    /\ store.hist = <<"deleteAll", "deleteAll", "load">>
    /\ store.loaded = <<>>
    /\ ~store.raised

\* C8: for a search string that is empty or holds a character that is
\* not whitespace, the filter raises nothing and returns, in table order,
\* the rows whose rating is selected and whose review contains the search
\* string without regard to case, every row passing the empty search
\* string; with no rating selected it returns no row.
C8_FilterExact ==
    (view # <<>> /\ (view[1].q = <<>> \/ ~Blank(view[1].q))) =>
        /\ ~view[1].out.raised
        /\ view[1].out.rows =
              SelectSeq(load_data(file),
                  LAMBDA r :
                      /\ r.rating.n \in view[1].selected
                      /\ \/ view[1].q = <<>>
                         \/ occurs_in(casefold(view[1].q),
                                      casefold(format_cell(r.review))))
        /\ (view[1].selected = {} => view[1].out.rows = <<>>)

\* C9: a run removes the file only when the run before it drew the checkbox
\* ticked and the Delete all button under it, and it is the run of that
\* button being pressed.
C9_DeleteNeedsBothSteps ==
    [][ (file.exists /\ ~file'.exists)
            => /\ page = AdminPage
               /\ ack
               /\ {"confirm", "delete"} \subseteq shown
               /\ Shows("deleted")' ]_vars

\* C9's case: the file was removed from the Admin Dashboard.
C9_Witness ==
    /\ page = AdminPage
    /\ ack
    /\ Shows("deleted")
    /\ ~file.exists

\* C10: when both processes loaded before either wrote, both report
\* success and the file is the rewrite of the one that wrote last: what it
\* had loaded and its row, without the row of the other.
C10_LastRewriteWins ==
    (/\ race # <<>>
     /\ race[2].overlapped
     /\ \A w \in Writers : race[1][w].pc = "success")
        => LET w == race[1][race[2].last]
               l == race[1][other(race[2].last)]
           IN  /\ file.exists
               /\ file.rows = to_csv(w.df \o <<w.row>>)
               /\ \A i \in 1..Len(file.rows) :
                     file.rows[i].timestamp # format_cell(l.row.timestamp)

\* C10's case: rows were stored, both processes loaded, then both wrote.
C10_Witness ==
    /\ race # <<>>
    /\ race[2].overlapped
    /\ \A w \in Writers : race[1][w].pc = "success"
    /\ Len(file.rows) >= 2

====
